---- MODULE Spec2Model ----
(***************************************************************************)
(* Model of psanford/lambda-reminder: the scheduler (GetNextRunTime,       *)
(* IsDue, GetDueRules, UpdateRuleState) working on a state.State map.      *)
(*                                                                         *)
(* Instants are whole minutes counted from 2023-01-01 00:00 UTC; 0 stands  *)
(* for Go's zero time.Time{} (IsZero), which is earlier than every other   *)
(* instant, so the instants the model draws are 1 and later.               *)
(***************************************************************************)
EXTENDS Integers, Sequences, FiniteSets, TLC

\* ------------------------------------------------------------ bounds
\* Largest instant drawn for now and for stored last/next run times.
MaxTime == 2
\* Largest number of rules in a configuration.
MaxRules == 2

\* ------------------------------------------------------------ data
\* time.Time{}: the zero instant, "never run" / "no next run".
ZeroTime == 0

Names == {"a", "b"}

\* The cron expressions the rules of the model have: two that gronx
\* accepts (every 2nd and every 3rd minute) and one it rejects.
ValidCrons == {"*/2 * * * *", "*/3 * * * *"}
Crons == ValidCrons \cup {"invalid cron"}

\* config.Rule, reduced to the fields the scheduler reads.
Rules == [Name : Names, Cron : Crons]

\* state.RuleState
RuleState(name, cronExpr, lastRun, nextRun) ==
    [Name |-> name, CronExpr |-> cronExpr,
     LastRunTime |-> lastRun, NextRunTime |-> nextRun]

\* state.State.Rules: a map from rule name to RuleState; its keys are DOMAIN.
EmptyState == [n \in {} |-> RuleState(n, "", ZeroTime, ZeroTime)]

\* st.Rules[name] = v
MapSet(s, name, v) ==
    [n \in (DOMAIN s) \cup {name} |-> IF n = name THEN v ELSE s[n]]

\* ------------------------------------------------------------ calendar
MinutesPerHour == 60
HoursPerDay == 24
MinutesPerDay == MinutesPerHour * HoursPerDay
\* The year in which instant 0 of the model lies, and the weekday of its
\* first day (Sunday, as cron numbers weekdays).
EpochYear == 2023
EpochWeekday == 0

IsLeap(y) == (y % 4 = 0) /\ ((y % 100 # 0) \/ (y % 400 = 0))

\* Faulty variant of DaysInMonth: February always has 28 days.
DaysInMonthNoLeap(y, m) ==
    CASE m = 2 -> 28
      [] m \in {4, 6, 9, 11} -> 30
      [] OTHER -> 31

DaysInMonth(y, m) ==
    CASE m = 2 -> IF IsLeap(y) THEN 29 ELSE 28
      [] m \in {4, 6, 9, 11} -> 30
      [] OTHER -> 31

MinuteOf(t) == t % MinutesPerHour
HourOf(t) == (t \div MinutesPerHour) % HoursPerDay
DayNumber(t) == t \div MinutesPerDay
Weekday(t) == (DayNumber(t) + EpochWeekday) % 7

\* The date of the day d days after the first of month m of year y.
RECURSIVE DateFrom(_, _, _)
DateFrom(d, y, m) ==
    IF d < DaysInMonth(y, m)
    THEN [year |-> y, month |-> m, day |-> d + 1]
    ELSE DateFrom(d - DaysInMonth(y, m),
                  IF m = 12 THEN y + 1 ELSE y, IF m = 12 THEN 1 ELSE m + 1)

DateOf(t) == DateFrom(DayNumber(t), EpochYear, 1)

\* The days from the first day of the epoch to the first of month m of year y.
RECURSIVE DaysUpTo(_, _)
DaysUpTo(y, m) ==
    IF y = EpochYear /\ m = 1
    THEN 0
    ELSE LET py == IF m = 1 THEN y - 1 ELSE y
             pm == IF m = 1 THEN 12 ELSE m - 1
         IN  DaysUpTo(py, pm) + DaysInMonth(py, pm)

\* time.Date(y, m, d, h, mi, 0, 0, time.UTC)
Instant(y, m, d, h, mi) ==
    ((DaysUpTo(y, m) + d - 1) * HoursPerDay + h) * MinutesPerHour + mi

\* ------------------------------------------------------------ cron
\* The fields of a parsed expression: a minute step (0 when the minute
\* field is a number), the minute and the hour (-1 for "*"), the day of
\* month field ("*" or "L") and the weekdays.
Fields(step, minute, hour, dom, dow) ==
    [ok |-> TRUE, step |-> step, minute |-> minute, hour |-> hour,
     dom |-> dom, dow |-> dow]

\* What gronx makes of an expression; every other text is rejected.
CronFields(cronExpr) ==
    CASE cronExpr = "*/2 * * * *" -> Fields(2, -1, -1, "*", 0..6)
      [] cronExpr = "*/3 * * * *" -> Fields(3, -1, -1, "*", 0..6)
      [] cronExpr = "0 9 * * *"   -> Fields(0, 0, 9, "*", 0..6)
      [] cronExpr = "0 7 * * *"   -> Fields(0, 0, 7, "*", 0..6)
      [] cronExpr = "30 23 * * *" -> Fields(0, 30, 23, "*", 0..6)
      [] cronExpr = "0 0 * * *"   -> Fields(0, 0, 0, "*", 0..6)
      [] cronExpr = "0 9 * * 1-5" -> Fields(0, 0, 9, "*", 1..5)
      [] cronExpr = "0 9 L * *"   -> Fields(0, 0, 9, "L", 0..6)
      [] OTHER -> [ok |-> FALSE, step |-> 0, minute |-> -1, hour |-> -1,
                   dom |-> "*", dow |-> {}]

\* gronx.IsValid
IsValid(cronExpr) == CronFields(cronExpr).ok

\* The minute step of an expression "*/k * * * *".
CronStep(cronExpr) == CronFields(cronExpr).step

MinuteDue(f, t) ==
    IF f.step > 0 THEN MinuteOf(t) % f.step = 0
    ELSE f.minute = -1 \/ MinuteOf(t) = f.minute

HourDue(f, t) == f.hour = -1 \/ HourOf(t) = f.hour

DayDue(f, t) ==
    /\ Weekday(t) \in f.dow
    /\ f.dom = "L" =>
           LET d == DateOf(t) IN d.day = DaysInMonth(d.year, d.month)

\* gronx's due test of an accepted expression at minute t.
CronMatches(cronExpr, t) ==
    LET f == CronFields(cronExpr)
    IN  DayDue(f, t) /\ HourDue(f, t) /\ MinuteDue(f, t)

\* The first due minute of an hour from minute lo on; MinutesPerHour when
\* there is none.
FirstMinute(f, lo) ==
    LET m == IF f.step > 0
             THEN ((lo + f.step - 1) \div f.step) * f.step
             ELSE IF f.minute = -1 \/ lo <= f.minute
                  THEN (IF f.minute = -1 THEN lo ELSE f.minute)
                  ELSE MinutesPerHour
    IN  IF m < MinutesPerHour THEN m ELSE MinutesPerHour

\* The first due hour of a day from hour lo on; HoursPerDay when there is
\* none.
FirstHour(f, lo) ==
    IF f.hour = -1 THEN lo
    ELSE IF lo <= f.hour THEN f.hour ELSE HoursPerDay

\* The longest the search looks ahead for a due day.
MaxDaySearch == 31

\* The first due day from day d on.
FirstDay(f, d) ==
    CHOOSE x \in d..(d + MaxDaySearch) :
        /\ DayDue(f, x * MinutesPerDay)
        /\ \A y \in d..(x - 1) : ~DayDue(f, y * MinutesPerDay)

\* Minute m of hour h of day d.
MinuteAt(d, h, m) == (d * HoursPerDay + h) * MinutesPerHour + m

\* The first due instant of the first due day from day d on.
FirstOfDay(f, d) ==
    MinuteAt(FirstDay(f, d), FirstHour(f, 0), FirstMinute(f, 0))

\* The search of gronx: the earliest due instant at or after t. It is in
\* the hour of t, or else in a later hour of its day, or else the first due
\* instant of a later day.
Bump(f, t) ==
    LET d == DayNumber(t)
        h == FirstHour(f, HourOf(t))
        m == FirstMinute(f, MinuteOf(t))
        h2 == FirstHour(f, HourOf(t) + 1)
    IN  IF ~DayDue(f, t) THEN FirstOfDay(f, d + 1)
        ELSE IF h = HourOf(t) /\ m < MinutesPerHour THEN MinuteAt(d, h, m)
        ELSE IF h = HourOf(t) /\ h2 < HoursPerDay
             THEN MinuteAt(d, h2, FirstMinute(f, 0))
        ELSE IF h # HourOf(t) /\ h < HoursPerDay
             THEN MinuteAt(d, h, FirstMinute(f, 0))
        ELSE FirstOfDay(f, d + 1)

\* Faulty variant of NextTickAfter: the search starts at the day after
\* fromTime.
NextTickAfterNextDay(cronExpr, fromTime, inclRefTime) ==
    LET f == CronFields(cronExpr)
    IN  IF ~f.ok THEN [t |-> fromTime, err |-> TRUE]
        ELSE [t |-> Bump(f, (DayNumber(fromTime) + 1) * MinutesPerDay),
              err |-> FALSE]

\* gronx.NextTickAfter(expr, from, inclRefTime): [t, err], the earliest
\* matching instant after fromTime, or fromTime itself when inclRefTime is
\* set and fromTime matches.
NextTickAfter(cronExpr, fromTime, inclRefTime) ==
    LET f == CronFields(cronExpr)
    IN  IF ~f.ok THEN [t |-> fromTime, err |-> TRUE]
        ELSE [t |-> Bump(f, IF inclRefTime THEN fromTime ELSE fromTime + 1),
              err |-> FALSE]

\* Faulty variant of GetNextRunTime: NextTickAfter is called with
\* inclRefTime set.
GetNextRunTimeInclusive(cronExpr, fromTime) ==
    IF ~IsValid(cronExpr)
    THEN [t |-> ZeroTime, err |-> TRUE]
    ELSE LET r == NextTickAfter(cronExpr, fromTime, TRUE)
         IN  IF r.err \/ r.t = ZeroTime
             THEN [t |-> ZeroTime, err |-> TRUE]
             ELSE [t |-> r.t, err |-> FALSE]

\* Faulty variant of GetNextRunTime: what NextTickAfter returns is handed on
\* as it is.
GetNextRunTimeHandsOn(cronExpr, fromTime) ==
    NextTickAfter(cronExpr, fromTime, FALSE)

\* Scheduler.GetNextRunTime: [t, err]; on error t is the zero instant.
GetNextRunTime(cronExpr, fromTime) ==
    IF ~IsValid(cronExpr)
    THEN [t |-> ZeroTime, err |-> TRUE]
    ELSE LET r == NextTickAfter(cronExpr, fromTime, FALSE)
         IN  IF r.err
             THEN [t |-> ZeroTime, err |-> TRUE]
             ELSE IF r.t = ZeroTime
                  THEN [t |-> ZeroTime, err |-> TRUE]
                  ELSE [t |-> r.t, err |-> FALSE]

\* Scheduler.ValidateRule: TRUE when it returns an error.
ValidateRule(cronExpr) == ~IsValid(cronExpr)

\* Faulty variant of IsDue: the comparison without now.Equal(nextRun).
IsDueStrict(cronExpr, lastRun, nextRun, t) ==
    IF nextRun = ZeroTime THEN TRUE ELSE t > nextRun

\* Scheduler.IsDue
IsDue(cronExpr, lastRun, nextRun, t) ==
    IF nextRun = ZeroTime THEN TRUE ELSE (t > nextRun) \/ (t = nextRun)

\* ------------------------------------------------------------ GetDueRules
\* The loop's working values: the state map, the due list built so far and
\* the index i of the rule at hand. For the properties it also keeps the
\* positions in conf.Rules of the rules in the due list (dueIdx; two rules of
\* a configuration can agree in name and cron) and what st.Rules held for
\* each rule when it was reached (<<>> without entry, else <<ruleState>>).
Acc(s, due, dueIdx, reached, i) ==
    [st |-> s, due |-> due, dueIdx |-> dueIdx, reached |-> reached, i |-> i]

\* dueRules = append(dueRules, rule)
AppendDue(acc, rule) ==
    [acc EXCEPT !.due = Append(acc.due, rule), !.dueIdx = Append(acc.dueIdx, acc.i)]

\* Faulty variant of NewRuleState: the next run time is left at its zero
\* value.
NewRuleStateUnset(rule, nextRun) ==
    RuleState(rule.Name, rule.Cron, ZeroTime, ZeroTime)

\* The initial state written for a new rule.
NewRuleState(rule, nextRun) ==
    RuleState(rule.Name, rule.Cron, ZeroTime, nextRun)

\* Faulty variant of CronChangedState: the stored next run time is kept.
CronChangedStateStale(rule, ruleState, nextRun) ==
    RuleState(rule.Name, rule.Cron, ruleState.LastRunTime, ruleState.NextRunTime)

\* Faulty variant of CronChangedState: the last run time is reset as for a
\* new rule.
CronChangedStateResets(rule, ruleState, nextRun) ==
    RuleState(rule.Name, rule.Cron, ZeroTime, nextRun)

\* The state written when the cron expression changed.
CronChangedState(rule, ruleState, nextRun) ==
    RuleState(rule.Name, rule.Cron, ruleState.LastRunTime, nextRun)

\* Faulty variant of NewRuleStep: the new rule is also appended to the due list.
NewRuleStepFires(rule, acc, t) ==
    LET r == GetNextRunTime(rule.Cron, t)
    IN  IF r.err
        THEN acc
        ELSE AppendDue([acc EXCEPT !.st = MapSet(acc.st, rule.Name,
                                                NewRuleState(rule, r.t))],
                       rule)

\* if !exists { ... continue }
NewRuleStep(rule, acc, t) ==
    LET r == GetNextRunTime(rule.Cron, t)
    IN  IF r.err
        THEN acc
        ELSE [acc EXCEPT !.st = MapSet(acc.st, rule.Name, NewRuleState(rule, r.t))]

\* Faulty variant of CronChangedStep: without the closing continue, so that the due
\* test runs on the ruleState read before the update.
CronChangedStepFallsThrough(rule, ruleState, acc, t) ==
    LET r == GetNextRunTime(rule.Cron, t)
        upd == IF r.err
               THEN acc
               ELSE [acc EXCEPT !.st = MapSet(acc.st, rule.Name,
                                    RuleState(rule.Name, rule.Cron,
                                              ruleState.LastRunTime, r.t))]
    IN  IF IsDue(rule.Cron, ruleState.LastRunTime, ruleState.NextRunTime, t)
        THEN AppendDue(upd, rule)
        ELSE upd

\* if ruleState.CronExpr != rule.Cron { ... continue }
CronChangedStep(rule, ruleState, acc, t) ==
    LET r == GetNextRunTime(rule.Cron, t)
    IN  IF r.err
        THEN acc
        ELSE [acc EXCEPT !.st = MapSet(acc.st, rule.Name,
                                       CronChangedState(rule, ruleState, r.t))]

\* Faulty variant of DueStep: the due rule is put in front of the list.
DueStepPrepends(rule, ruleState, acc, t) ==
    IF IsDue(rule.Cron, ruleState.LastRunTime, ruleState.NextRunTime, t)
    THEN [acc EXCEPT !.due = <<rule>> \o acc.due,
                     !.dueIdx = <<acc.i>> \o acc.dueIdx]
    ELSE acc

\* if s.IsDue(...) { dueRules = append(dueRules, rule) }
DueStep(rule, ruleState, acc, t) ==
    IF IsDue(rule.Cron, ruleState.LastRunTime, ruleState.NextRunTime, t)
    THEN AppendDue(acc, rule)
    ELSE acc

\* One iteration of the loop over conf.Rules.
ProcessRule(rule, acc, t) ==
    IF rule.Name \notin DOMAIN acc.st
    THEN NewRuleStep(rule, acc, t)
    ELSE LET ruleState == acc.st[rule.Name]
         IN  IF ruleState.CronExpr # rule.Cron
             THEN CronChangedStep(rule, ruleState, acc, t)
             ELSE DueStep(rule, ruleState, acc, t)

\* What st.Rules holds for a rule name: <<>> or <<ruleState>>.
Lookup(s, name) == IF name \in DOMAIN s THEN <<s[name]>> ELSE <<>>

\* for _, rule := range conf.Rules, from index i on.
RECURSIVE GetDueRulesLoop(_, _, _, _)
GetDueRulesLoop(rules, i, acc, t) ==
    IF i > Len(rules)
    THEN acc
    ELSE LET seen == [acc EXCEPT !.i = i, !.reached =
                         Append(acc.reached, Lookup(acc.st, rules[i].Name))]
         IN  GetDueRulesLoop(rules, i + 1, ProcessRule(rules[i], seen, t), t)

\* Faulty variant of GetDueRules: entries of rules that are no longer
\* configured are dropped from the state map.
GetDueRulesPrunes(rules, s, t) ==
    LET acc == GetDueRulesLoop(rules, 1, Acc(s, <<>>, <<>>, <<>>, 1), t)
        kept == {n \in DOMAIN acc.st : \E i \in 1..Len(rules) : rules[i].Name = n}
    IN  [due |-> acc.due, err |-> FALSE, st |-> [n \in kept |-> acc.st[n]],
         dueIdx |-> acc.dueIdx, reached |-> acc.reached]

\* Scheduler.GetDueRules(conf, st, now): the due list, the error (always
\* nil) and the state map as the call leaves it.
GetDueRules(rules, s, t) ==
    LET acc == GetDueRulesLoop(rules, 1, Acc(s, <<>>, <<>>, <<>>, 1), t)
    IN  [due |-> acc.due, err |-> FALSE, st |-> acc.st,
         dueIdx |-> acc.dueIdx, reached |-> acc.reached]

\* ------------------------------------------------------------ UpdateRuleState
\* Faulty variant of AdvancedState: last and next run time swapped.
AdvancedStateSwapped(ruleName, cronExpr, runTime, nextRun) ==
    RuleState(ruleName, cronExpr, nextRun, runTime)

\* Faulty variant of AdvancedState: NextRunTime is left at its zero value.
AdvancedStateNoNext(ruleName, cronExpr, runTime, nextRun) ==
    RuleState(ruleName, cronExpr, runTime, ZeroTime)

\* The state written after a rule has run.
AdvancedState(ruleName, cronExpr, runTime, nextRun) ==
    RuleState(ruleName, cronExpr, runTime, nextRun)

\* Faulty variant of UpdateRuleState: the entry is written before the error is
\* looked at.
UpdateRuleStateWritesFirst(s, ruleName, cronExpr, runTime) ==
    LET r == GetNextRunTime(cronExpr, runTime)
    IN  [st |-> MapSet(s, ruleName,
                       AdvancedState(ruleName, cronExpr, runTime, r.t)),
         err |-> r.err]

\* Scheduler.UpdateRuleState(st, ruleName, cronExpr, runTime)
UpdateRuleState(s, ruleName, cronExpr, runTime) ==
    LET r == GetNextRunTime(cronExpr, runTime)
    IN  IF r.err
        THEN [st |-> s, err |-> TRUE]
        ELSE [st |-> MapSet(s, ruleName,
                            AdvancedState(ruleName, cronExpr, runTime, r.t)),
              err |-> FALSE]

\* ------------------------------------------------------------ state machine
VARIABLES
    st,     \* state.State.Rules of the State object the calls work on
    conf,   \* conf.Rules, the configured rule list
    now,    \* the instant passed to the calls
    call    \* the last call: its operation, arguments, prior state and results

vars == <<st, conf, now, call>>

Instants == 1..MaxTime
StoredInstants == ZeroTime..MaxTime

\* The rule lists a configuration can hold (validateConfig rejects neither a
\* repeated rule name nor an expression gronx rejects, only an empty one).
Confs == UNION {[1..n -> Rules] : n \in 0..MaxRules}

\* The last-run instants of a loaded entry: never run, or run at instant 1
\* (the scheduler only copies or overwrites this field).
StoredLastRuns == {ZeroTime, 1}

\* The entries a loaded state document can hold for a rule name.
StoredRuleStates(n) ==
    {RuleState(n, c, l, x) : c \in Crons, l \in StoredLastRuns, x \in StoredInstants}

\* The state maps LoadState can return.
States ==
    UNION {{s \in [D -> UNION {StoredRuleStates(n) : n \in D}] :
               \A n \in D : s[n].Name = n} : D \in SUBSET Names}

NoCall ==
    [op |-> "none", pre |-> EmptyState, rules |-> <<>>, now |-> ZeroTime,
     name |-> "", cron |-> "", due |-> <<>>, dueIdx |-> <<>>, err |-> FALSE,
     reached |-> <<>>]

Init ==
    /\ st \in States
    /\ conf \in Confs
    /\ now \in Instants
    /\ call = NoCall

\* dueRules, err := sched.GetDueRules(conf, st, now)
GetDueRulesCall ==
    \E r \in {GetDueRules(conf, st, now)} :
        /\ st' = r.st
        /\ call' = [op |-> "GetDueRules", pre |-> st, rules |-> conf, now |-> now,
                    name |-> "", cron |-> "", due |-> r.due, dueIdx |-> r.dueIdx,
                    err |-> r.err, reached |-> r.reached]
        /\ UNCHANGED <<conf, now>>

\* err = sched.UpdateRuleState(st, rule.Name, rule.Cron, now), for a
\* configured rule.
UpdateRuleStateCall ==
    \E i \in 1..Len(conf) :
        \E r \in {UpdateRuleState(st, conf[i].Name, conf[i].Cron, now)} :
            /\ st' = r.st
            /\ call' = [op |-> "UpdateRuleState", pre |-> st, rules |-> conf,
                        now |-> now, name |-> conf[i].Name, cron |-> conf[i].Cron,
                        due |-> <<>>, dueIdx |-> <<>>, err |-> r.err,
                        reached |-> <<>>]
            /\ UNCHANGED <<conf, now>>

\* Time passes between two invocations.
Tick ==
    /\ now < MaxTime
    /\ now' = now + 1
    /\ UNCHANGED <<st, conf, call>>

Next == GetDueRulesCall \/ UpdateRuleStateCall \/ Tick

Spec == Init /\ [][Next]_vars

\* ------------------------------------------------------------ properties
Range(s) == {s[i] : i \in DOMAIN s}

\* sub is a subsequence of full: matched greedily from positions i and j on.
RECURSIVE IsSubseqFrom(_, _, _, _)
IsSubseqFrom(sub, i, full, j) ==
    IF i > Len(sub) THEN TRUE
    ELSE IF j > Len(full) THEN FALSE
    ELSE IF sub[i] = full[j] THEN IsSubseqFrom(sub, i + 1, full, j + 1)
    ELSE IsSubseqFrom(sub, i, full, j + 1)

\* The last call was GetDueRules(call.rules, call.pre, call.now); st is the
\* state it left (Tick does not touch st).
AfterGetDueRules == call.op = "GetDueRules"
AfterUpdateRuleState == call.op = "UpdateRuleState"

\* Rule i of the last GetDueRules call had no entry when it was reached.
WasNew(i) == call.reached[i] = <<>>
\* Rule i had an entry with another cron expression when it was reached.
WasChanged(i) ==
    /\ call.reached[i] # <<>>
    /\ call.reached[i][1].CronExpr # call.rules[i].Cron
\* Rule i had an entry with its own cron expression when it was reached.
WasSettled(i) ==
    /\ call.reached[i] # <<>>
    /\ call.reached[i][1].CronExpr = call.rules[i].Cron
\* The cron expression of rule i evaluates at the instant of the call.
Evaluates(i) == ~GetNextRunTime(call.rules[i].Cron, call.now).err
\* Rule i is in the returned due list.
Returned(i) == i \in Range(call.dueIdx)

\* C1. Bootstrap non-firing: a rule that has no entry in st.Rules when
\* GetDueRules reaches it is not in the due list that call returns.
C1_BootstrapNonFiring ==
    AfterGetDueRules =>
        \A i \in 1..Len(call.rules) : WasNew(i) => ~Returned(i)

\* A call that bootstrapped a rule and returned another rule as due.
C1_Witness ==
    /\ AfterGetDueRules
    /\ call.due # <<>>
    /\ \E i \in 1..Len(call.rules) :
          WasNew(i) /\ Evaluates(i) /\ call.rules[i].Name \in DOMAIN st

\* C2. Cron-edit cooldown: a rule whose stored cron expression (before the
\* call, or when the loop reaches it) differs from its configured one is not
\* in the due list that call returns, whatever the stored next_run.
C2_CronEditCooldown ==
    AfterGetDueRules =>
        \A i \in 1..Len(call.rules) :
            LET rule == call.rules[i]
            IN  \/ WasChanged(i)
                \/ /\ rule.Name \in DOMAIN call.pre
                   /\ call.pre[rule.Name].CronExpr # rule.Cron
                => ~Returned(i)

\* A call that met a changed cron expression whose stored next_run was not
\* zero and at or before now, and one whose stored next_run was zero.
C2_Witness ==
    /\ AfterGetDueRules
    /\ \E i \in 1..Len(call.rules) :
          /\ WasChanged(i) /\ Evaluates(i)
          /\ call.reached[i][1].NextRunTime # ZeroTime
          /\ call.reached[i][1].NextRunTime <= call.now
    /\ \E j \in 1..Len(call.rules) :
          /\ WasChanged(j)
          /\ call.reached[j][1].NextRunTime = ZeroTime

\* C3. Due test: a rule whose entry, when the loop reaches it, has the
\* rule's own cron expression is returned iff the stored next_run is zero or
\* now >= next_run.
C3_DueTest ==
    AfterGetDueRules =>
        \A i \in 1..Len(call.rules) :
            WasSettled(i) =>
                (Returned(i) <=>
                    \/ call.reached[i][1].NextRunTime = ZeroTime
                    \/ call.now >= call.reached[i][1].NextRunTime)

\* A call with one rule whose next_run equals now (returned) and one whose
\* next_run is later than now (not returned).
C3_Witness ==
    /\ AfterGetDueRules
    /\ \E i \in 1..Len(call.rules) :
          /\ WasSettled(i)
          /\ call.reached[i][1].NextRunTime = call.now
          /\ Returned(i)
    /\ \E j \in 1..Len(call.rules) :
          /\ WasSettled(j)
          /\ call.reached[j][1].NextRunTime > call.now
          /\ ~Returned(j)

\* C4. Idempotence: a second GetDueRules call right after a first one, with
\* the same rules and the same now, returns the same due list and leaves the
\* state as the first call left it.
C4_Idempotence ==
    [][(/\ call.op = "GetDueRules"
        /\ call'.op = "GetDueRules"
        /\ call'.rules = call.rules
        /\ call'.now = call.now)
       => (call'.due = call.due /\ st' = st)]_vars

\* C5. Bootstrap state: for a rule met without entry whose expression
\* evaluates, after the call st.Rules[rule.Name] has last_run zero, next_run
\* nextAfter(rule.Cron, now) and the rule's cron expression.
C5_BootstrapState ==
    AfterGetDueRules =>
        \A i \in 1..Len(call.rules) :
            LET rule == call.rules[i]
            IN  (WasNew(i) /\ Evaluates(i)) =>
                    /\ rule.Name \in DOMAIN st
                    /\ st[rule.Name] =
                          RuleState(rule.Name, rule.Cron, ZeroTime,
                                    GetNextRunTime(rule.Cron, call.now).t)

\* C6. Cron-edit state update: for a rule met with another stored cron
\* expression whose new expression evaluates, after the call the entry has
\* the new expression, next_run nextAfter(new cron, now) and the last_run
\* that was stored.
C6_CronEditState ==
    AfterGetDueRules =>
        \A i \in 1..Len(call.rules) :
            LET rule == call.rules[i]
            IN  (WasChanged(i) /\ Evaluates(i)) =>
                    /\ rule.Name \in DOMAIN st
                    /\ st[rule.Name] =
                          RuleState(rule.Name, rule.Cron,
                                    call.reached[i][1].LastRunTime,
                                    GetNextRunTime(rule.Cron, call.now).t)

\* C7. Advance postcondition: after a successful UpdateRuleState(st,
\* ruleName, cronExpr, runTime) the entry of ruleName has last_run runTime,
\* next_run nextAfter(cronExpr, runTime) and cron cronExpr, whether or not it
\* existed before, and every other entry is as it was.
C7_AdvancePostcondition ==
    (AfterUpdateRuleState /\ ~call.err) =>
        /\ DOMAIN st = (DOMAIN call.pre) \cup {call.name}
        /\ st[call.name] =
              RuleState(call.name, call.cron, call.now,
                        GetNextRunTime(call.cron, call.now).t)
        /\ \A n \in (DOMAIN call.pre) \ {call.name} : st[n] = call.pre[n]

\* A successful advance of a rule that had no entry, next to another entry.
C7_Witness ==
    /\ AfterUpdateRuleState /\ ~call.err
    /\ call.name \notin DOMAIN call.pre
    /\ call.pre # EmptyState

\* The entry of a rule name passes the due test of GetDueRules at instant t.
DueInState(s, name, cronExpr, t) ==
    /\ name \in DOMAIN s
    /\ s[name].CronExpr = cronExpr
    /\ IsDue(cronExpr, s[name].LastRunTime, s[name].NextRunTime, t)

\* C8. Advance failure: after UpdateRuleState returned an error the whole
\* state is the state before the call, and an entry that passed the due test
\* before the call passes it at every later instant.
C8_AdvanceFailureKeepsState ==
    (AfterUpdateRuleState /\ call.err) =>
        /\ st = call.pre
        /\ DueInState(call.pre, call.name, call.cron, call.now)
              => DueInState(st, call.name, call.cron, now)

\* A failed advance of a rule that passed the due test, looked at one
\* instant later.
C8_Witness ==
    /\ AfterUpdateRuleState /\ call.err
    /\ now > call.now
    /\ DueInState(call.pre, call.name, call.cron, call.now)

\* C9. Cron errors of new rules: a rule met without entry whose expression
\* does not evaluate gets no entry, is not returned, the call returns no
\* error and runs through every rule, and a following pass with the same
\* rules meets the rule without entry again.
C9_NewRuleCronError ==
    AfterGetDueRules =>
        \A i \in 1..Len(call.rules) :
            (WasNew(i) /\ ~Evaluates(i)) =>
                /\ call.rules[i].Name \notin DOMAIN st
                /\ ~Returned(i)
                /\ ~call.err
                /\ Len(call.reached) = Len(call.rules)
                /\ GetDueRules(call.rules, st, now).reached[i] = <<>>

\* C10. Due order: the returned list is a subsequence of conf.Rules: it
\* holds configured rules only, taken at strictly increasing positions of
\* conf.Rules (so none more often than configured, and in configuration
\* order).
C10_DueOrder ==
    AfterGetDueRules =>
        /\ IsSubseqFrom(call.due, 1, call.rules, 1)
        /\ Len(call.dueIdx) = Len(call.due)
        /\ \A k \in 1..Len(call.due) :
              /\ call.dueIdx[k] \in 1..Len(call.rules)
              /\ call.due[k] = call.rules[call.dueIdx[k]]
        /\ \A k, m \in 1..Len(call.due) :
              k < m => call.dueIdx[k] < call.dueIdx[m]

\* A call that returned two different rules.
C10_Witness ==
    /\ AfterGetDueRules
    /\ Len(call.due) >= 2
    /\ call.due[1] # call.due[2]

\* The names of the rules in a rule list.
RuleNames(rules) == {rules[i].Name : i \in 1..Len(rules)}

\* C11. Orphans: GetDueRules deletes no key of st.Rules, and an entry whose
\* name is the name of no configured rule is the same after the call as
\* before it and no rule of that name is returned; this holds of every
\* GetDueRules call of a sequence of calls.
C11_OrphansRetained ==
    AfterGetDueRules =>
        /\ DOMAIN call.pre \subseteq DOMAIN st
        /\ \A n \in (DOMAIN call.pre) \ RuleNames(call.rules) :
              /\ st[n] = call.pre[n]
              /\ \A k \in 1..Len(call.due) : call.due[k].Name # n

\* A call that left an orphan entry with a zero next_run alone while it
\* wrote the entry of a configured rule, after an earlier call.
C11_Witness ==
    /\ AfterGetDueRules
    /\ \E n \in (DOMAIN call.pre) \ RuleNames(call.rules) :
          call.pre[n].NextRunTime = ZeroTime
    /\ st # call.pre
    /\ \E m \in DOMAIN call.pre :
          call.pre[m].LastRunTime = call.now /\ call.pre[m].NextRunTime > call.now

-----------------------------------------------------------------------------
\* Passes of Handler over one state object that starts empty: each pass is
\* one GetDueRules call followed, for every due rule in order, by a
\* dispatch that fails or by UpdateRuleState. Between passes the clock may
\* advance and the configuration may be edited. In this specification call
\* holds the position in the pass and, for every entry of st, the instant of
\* the pass that created it (boot) and of the call that last changed it
\* (wrote).
MaxPassTime == 3

NoInstants == [n \in {} |-> ZeroTime]

\* boot after a call at t that took the state map from s to s2.
Booted(g, s, s2, t) ==
    [n \in DOMAIN s2 |-> IF n \notin DOMAIN s THEN t ELSE g[n]]

\* wrote after a call at t that took the state map from s to s2.
Written(g, s, s2, t) ==
    [n \in DOMAIN s2 |-> IF n \notin DOMAIN s \/ s2[n] # s[n] THEN t ELSE g[n]]

PassInit ==
    /\ st = EmptyState
    /\ conf \in Confs
    /\ now = 1
    /\ call = [pc |-> "idle", due |-> <<>>, k |-> 1,
               boot |-> NoInstants, wrote |-> NoInstants]

\* sched.GetDueRules(conf, st, now) at the start of a pass.
PassGetDueRules ==
    /\ call.pc = "idle"
    /\ \E r \in {GetDueRules(conf, st, now)} :
          /\ st' = r.st
          /\ call' = [pc |-> "run", due |-> r.due, k |-> 1,
                      boot |-> Booted(call.boot, st, r.st, now),
                      wrote |-> Written(call.wrote, st, r.st, now)]
    /\ UNCHANGED <<conf, now>>

\* The dispatch of the k-th due rule succeeded: UpdateRuleState.
PassAdvance ==
    /\ call.pc = "run"
    /\ call.k <= Len(call.due)
    /\ \E r \in {UpdateRuleState(st, call.due[call.k].Name,
                                 call.due[call.k].Cron, now)} :
          /\ st' = r.st
          /\ call' = [call EXCEPT !.k = @ + 1,
                         !.wrote = Written(call.wrote, st, r.st, now)]
    /\ UNCHANGED <<conf, now>>

\* The dispatch of the k-th due rule failed: the rule is not advanced.
PassSkip ==
    /\ call.pc = "run"
    /\ call.k <= Len(call.due)
    /\ call' = [call EXCEPT !.k = @ + 1]
    /\ UNCHANGED <<st, conf, now>>

\* The loop over the due rules is over.
PassEnd ==
    /\ call.pc = "run"
    /\ call.k > Len(call.due)
    /\ call' = [call EXCEPT !.pc = "idle", !.due = <<>>, !.k = 1]
    /\ UNCHANGED <<st, conf, now>>

\* The rule lists one edit away from rules: one rule replaced, one rule
\* appended, or one rule removed. Any edit is a sequence of these.
Edits(rules) ==
    {[rules EXCEPT ![i] = r] : i \in 1..Len(rules), r \in Rules}
        \cup {Append(rules, r) : r \in {x \in Rules : Len(rules) < MaxRules}}
        \cup {SubSeq(rules, 1, i - 1) \o SubSeq(rules, i + 1, Len(rules)) :
                 i \in 1..Len(rules)}

\* The configuration is edited between two passes.
PassEdit ==
    /\ call.pc = "idle"
    /\ conf' \in Edits(conf) \ {conf}
    /\ UNCHANGED <<st, now, call>>

\* Time passes between two passes.
PassTick ==
    /\ call.pc = "idle"
    /\ now < MaxPassTime
    /\ now' = now + 1
    /\ UNCHANGED <<st, conf, call>>

PassNext ==
    \/ PassGetDueRules
    \/ PassAdvance
    \/ PassSkip
    \/ PassEnd
    \/ PassEdit
    \/ PassTick

PassSpec == PassInit /\ [][PassNext]_vars

\* C12 as stated. After any sequence of passes from the empty state, an
\* entry with a non-zero last_run has next_run = nextAfter(cron snapshot,
\* last_run), and an entry that never ran has next_run = nextAfter(cron
\* snapshot, instant of the pass that bootstrapped it).
C12_NextRunFromLastRun ==
    \A n \in DOMAIN st :
        st[n].NextRunTime =
            GetNextRunTime(st[n].CronExpr,
                           IF st[n].LastRunTime # ZeroTime
                               THEN st[n].LastRunTime
                               ELSE call.boot[n]).t

\* C12 as the code has it. After any sequence of passes from the empty
\* state, every entry has next_run = nextAfter(cron snapshot, w), where w is
\* the instant of the call that last wrote the entry: the run instant
\* after UpdateRuleState, the instant of the pass after a bootstrap or
\* after a detected cron edit.
C12_NextRunFromLastWrite ==
    \A n \in DOMAIN st :
        /\ ~GetNextRunTime(st[n].CronExpr, call.wrote[n]).err
        /\ st[n].NextRunTime =
               GetNextRunTime(st[n].CronExpr, call.wrote[n]).t

\* An entry whose cron edit was detected in a pass later than its last run,
\* so that next_run is no longer the next occurrence after last_run.
C12_Witness ==
    \E n \in DOMAIN st :
        /\ st[n].LastRunTime # ZeroTime
        /\ call.wrote[n] > st[n].LastRunTime
        /\ st[n].NextRunTime #
               GetNextRunTime(st[n].CronExpr, st[n].LastRunTime).t

\* C13. From the empty state, over passes with non-decreasing now, no step
\* removes an entry or lowers its last_run, cron edits included.
C13_LastRunMonotone ==
    [][\A n \in DOMAIN st :
          /\ n \in DOMAIN st'
          /\ st'[n].LastRunTime >= st[n].LastRunTime]_vars

\* An entry that ran and whose cron expression was edited in a later pass:
\* the edit kept the last_run.
C13_Witness ==
    \E n \in DOMAIN st :
        /\ st[n].LastRunTime > call.boot[n]
        /\ call.wrote[n] > st[n].LastRunTime
        /\ call.pc = "idle"

\* C14 as stated. From the empty state, over passes with non-decreasing
\* now, no step lowers the next_run of an entry, cron edits included.
C14_NextRunMonotone ==
    [][\A n \in DOMAIN st :
          /\ n \in DOMAIN st'
          /\ st'[n].NextRunTime >= st[n].NextRunTime]_vars

\* C14 as the code has it. From the empty state, over passes with
\* non-decreasing now, no step lowers the next_run of an entry whose cron
\* snapshot the step leaves as it is.
C14_NextRunMonotoneSameCron ==
    [][\A n \in DOMAIN st :
          /\ n \in DOMAIN st'
          /\ st'[n].CronExpr = st[n].CronExpr
                 => st'[n].NextRunTime >= st[n].NextRunTime]_vars

\* An entry that was advanced in a pass later than the one that created
\* it, under the cron expression it still has.
C14_Witness ==
    \E n \in DOMAIN st :
        /\ st[n].LastRunTime > call.boot[n]
        /\ call.wrote[n] = st[n].LastRunTime
        /\ st[n].NextRunTime > st[n].LastRunTime
        /\ call.pc = "run"

-----------------------------------------------------------------------------
\* GetNextRunTime and ValidateRule on their own: an expression and a
\* fromTime (now) are drawn, the functions are applied, and a returned
\* instant may become the next fromTime, as it does from pass to pass. In
\* this specification call holds the expression, the last function applied
\* and what it returned.
CronWindow == 1
MaxFollow == 1

\* The expressions drawn: those of the tests of the scheduler (scheduler.go
\* 154-341), two more daily ones and the two minute steps.
CronExprs ==
    {"0 9 * * *", "0 7 * * *", "30 23 * * *", "0 0 * * *", "0 9 * * 1-5",
     "0 9 L * *", "*/2 * * * *", "*/3 * * * *",
     "invalid cron", "invalid", "0 9 * *"}

\* The days and times of day around which fromTime is drawn.
CronDays ==
    {<<2023, 2, 15>>, <<2023, 2, 28>>, <<2023, 4, 30>>, <<2023, 12, 31>>,
     <<2024, 1, 15>>, <<2024, 1, 31>>, <<2024, 2, 15>>, <<2024, 2, 28>>,
     <<2024, 2, 29>>}
CronTimes == {<<0, 0>>, <<7, 0>>, <<8, 0>>, <<9, 0>>, <<10, 0>>, <<23, 30>>}

CronInstants ==
    {Instant(d[1], d[2], d[3], h[1], h[2]) + w :
        d \in CronDays, h \in CronTimes, w \in (0 - CronWindow)..CronWindow}

CronCall(op, cronExpr, t, err, n) ==
    [op |-> op, cron |-> cronExpr, t |-> t, err |-> err, n |-> n]

CronInit ==
    /\ st = EmptyState
    /\ conf = <<>>
    /\ now \in CronInstants
    /\ \E c \in CronExprs : call = CronCall("none", c, ZeroTime, FALSE, 0)

\* s.ValidateRule(rule) for a rule with this expression.
CronValidateRule ==
    /\ call.op = "none"
    /\ call' = CronCall("ValidateRule", call.cron, ZeroTime,
                        ValidateRule(call.cron), call.n)
    /\ UNCHANGED <<st, conf, now>>

\* s.GetNextRunTime(cronExpr, now)
CronGetNextRunTime ==
    /\ call.op \in {"none", "ValidateRule"}
    /\ \E r \in {GetNextRunTime(call.cron, now)} :
          call' = CronCall("GetNextRunTime", call.cron, r.t, r.err, call.n)
    /\ UNCHANGED <<st, conf, now>>

\* The returned instant is the fromTime of the next call.
CronFollow ==
    /\ call.op = "GetNextRunTime"
    /\ ~call.err
    /\ call.n < MaxFollow
    /\ now' = call.t
    /\ call' = CronCall("none", call.cron, ZeroTime, FALSE, call.n + 1)
    /\ UNCHANGED <<st, conf>>

CronNext == CronValidateRule \/ CronGetNextRunTime \/ CronFollow

CronSpec == CronInit /\ [][CronNext]_vars

AfterGetNextRunTime == call.op = "GetNextRunTime"

\* C15. A successful GetNextRunTime(expr, t) returns an instant strictly
\* greater than t, also when t satisfies expr.
C15_StrictlyLater ==
    (AfterGetNextRunTime /\ ~call.err) => call.t > now

\* GetNextRunTime succeeded from an instant that satisfies the expression.
C15_Witness ==
    /\ AfterGetNextRunTime
    /\ ~call.err
    /\ CronMatches(call.cron, now)
    /\ call.n > 0

\* The daily expressions 'M H * * *'.
IsDaily(f) ==
    f.ok /\ f.step = 0 /\ f.minute >= 0 /\ f.hour >= 0 /\ f.dom = "*"
         /\ f.dow = 0..6

\* H:M of the day of t.
DailyAt(f, t) ==
    DayNumber(t) * MinutesPerDay + f.hour * MinutesPerHour + f.minute

\* C16. For a daily expression 'M H * * *' and every t, GetNextRunTime
\* returns H:M of the day of t when t is strictly before it and H:M of the
\* following day otherwise, and no instant strictly between t and the
\* result satisfies the expression.
C16_EarliestDaily ==
    (AfterGetNextRunTime /\ IsDaily(CronFields(call.cron))) =>
        LET f == CronFields(call.cron)
            at == DailyAt(f, now)
        IN  /\ ~call.err
            /\ call.t = IF now < at THEN at ELSE at + MinutesPerDay
            /\ \A u \in (now + 1)..(call.t - 1) : ~CronMatches(call.cron, u)

\* GetNextRunTime of a daily expression from exactly H:M, and from the
\* minute before it.
C16_Witness ==
    /\ AfterGetNextRunTime
    /\ IsDaily(CronFields(call.cron))
    /\ now = DailyAt(CronFields(call.cron), now)
    /\ call.t = now + MinutesPerDay

\* The number of the last day of month m of year y, February having 29
\* days in leap years and 28 otherwise.
LastDayOfMonth(y, m) ==
    IF m = 2
    THEN IF (y % 4 = 0) /\ ((y % 100 # 0) \/ (y % 400 = 0)) THEN 29 ELSE 28
    ELSE IF m \in {4, 6, 9, 11} THEN 30 ELSE 31

\* 09:00 on the last day of month m of year y.
LastDayAtNine(y, m) == Instant(y, m, LastDayOfMonth(y, m), 9, 0)

\* C17. For '0 9 L * *' and every t, GetNextRunTime returns 09:00 on the
\* last day of the month of t when t is strictly before it, and 09:00 on
\* the last day of the following month otherwise.
C17_LastDayOfMonth ==
    (AfterGetNextRunTime /\ call.cron = "0 9 L * *") =>
        LET d == DateOf(now)
            ny == IF d.month = 12 THEN d.year + 1 ELSE d.year
            nm == IF d.month = 12 THEN 1 ELSE d.month + 1
        IN  /\ ~call.err
            /\ call.t = IF now < LastDayAtNine(d.year, d.month)
                        THEN LastDayAtNine(d.year, d.month)
                        ELSE LastDayAtNine(ny, nm)

\* GetNextRunTime('0 9 L * *') from 31 January 2024 at or after 09:00 gives
\* 29 February 2024.
C17_Witness ==
    /\ AfterGetNextRunTime
    /\ call.cron = "0 9 L * *"
    /\ now >= Instant(2024, 1, 31, 9, 0)
    /\ now < Instant(2024, 2, 1, 0, 0)
    /\ call.t = Instant(2024, 2, 29, 9, 0)

\* C18. For an expression that ValidateRule rejects GetNextRunTime returns
\* an error and the zero instant, whatever fromTime is; for one that
\* ValidateRule accepts a value returned without error is not the zero
\* instant.
C18_InvalidFails ==
    AfterGetNextRunTime =>
        /\ ValidateRule(call.cron) => (call.err /\ call.t = ZeroTime)
        /\ (~ValidateRule(call.cron) /\ ~call.err) => call.t # ZeroTime

\* GetNextRunTime of an expression with four fields.
C18_Witness ==
    /\ AfterGetNextRunTime
    /\ call.cron = "0 9 * *"
    /\ ValidateRule(call.cron)
    /\ call.err

-----------------------------------------------------------------------------
\* Handler: one pass loads the configuration and the state, calls
\* GetDueRules, dispatches and advances the due rules one by one, saves the
\* state and returns. In this specification conf is the rule list of the
\* configuration document, st the state object of the running pass, and
\* call holds the stored state document, the position in the pass and what
\* the pass did so far.

\* The stored state document: absent, not decodable, a document without a
\* rules field, or a document with a rule map.
StoredDoc(kind, rules) == [kind |-> kind, rules |-> rules]

StoredDocs ==
    {StoredDoc(k, EmptyState) : k \in {"missing", "corrupt", "norules"}}
        \cup {StoredDoc("map", s) : s \in States}

\* Faulty variant of LoadState: a decoded document without rules is
\* returned with its nil map.
LoadStateKeepsNil(doc) ==
    CASE doc.kind = "missing" ->
             [rules |-> EmptyState, isNil |-> FALSE, err |-> FALSE]
      [] doc.kind = "corrupt" ->
             [rules |-> EmptyState, isNil |-> TRUE, err |-> TRUE]
      [] OTHER ->
             [rules |-> doc.rules, isNil |-> doc.kind = "norules",
              err |-> FALSE]

\* state.LoadState: [rules, isNil, err]; isNil says that the rule map of
\* the returned State is nil (on error no State is returned).
LoadState(doc) ==
    CASE doc.kind = "missing" ->
             [rules |-> EmptyState, isNil |-> FALSE, err |-> FALSE]
      [] doc.kind = "corrupt" ->
             [rules |-> EmptyState, isNil |-> TRUE, err |-> TRUE]
      [] OTHER ->
             LET decodedNil == doc.kind = "norules"
             IN  [rules |-> doc.rules,
                  isNil |-> IF decodedNil THEN FALSE ELSE decodedNil,
                  err |-> FALSE]

\* state.SaveState: the stored document afterwards.
SaveState(s, saveErr, doc) ==
    IF saveErr THEN doc ELSE StoredDoc("map", s)

\* config.LoadConfig, as far as the rule list goes: reading or decoding may
\* fail, and validateConfig rejects an empty rule list.
LoadConfig(rules, readErr) ==
    [err |-> readErr \/ Len(rules) = 0]

\* The body of the loop over dueRules for one rule: SendNotifications,
\* then UpdateRuleState unless the dispatch failed. [st, out]
DispatchStep(s, rule, sendErr, t) ==
    IF sendErr
    THEN [st |-> s, out |-> "send"]
    ELSE LET r == UpdateRuleState(s, rule.Name, rule.Cron, t)
         IN  [st |-> r.st, out |-> IF r.err THEN "update" ELSE "ok"]

\* Faulty variant of NextDue: the loop ends at the first failed rule.
NextDueStops(k, n, out) == IF out # "ok" THEN n + 1 ELSE k + 1

\* The position of the loop over the n due rules after rule k: both error
\* branches end in continue.
NextDue(k, n, out) == k + 1

\* What Handler returns after the loop.
HandlerReturn(saveErr, errs) ==
    IF saveErr THEN "save state"
    ELSE IF errs > 0 THEN "processing errors" ELSE "nil"

\* prevFailed holds the positions in conf.Rules of the due rules whose
\* dispatch failed in the last pass that got as far as the loop.
HandlerCall(pc, stored, due, k, errs, out, afterDue, loaded, ret, dueIdx, prevFailed) ==
    [pc |-> pc, stored |-> stored, due |-> due, k |-> k, errs |-> errs,
     out |-> out, afterDue |-> afterDue, loaded |-> loaded, ret |-> ret,
     dueIdx |-> dueIdx, prevFailed |-> prevFailed]

\* The positions in conf.Rules of the due rules of this pass whose
\* dispatch failed.
DispatchFailed(c) ==
    {c.dueIdx[k] : k \in {j \in 1..Len(c.out) : c.out[j] = "send"}}

NotLoaded == [rules |-> EmptyState, isNil |-> TRUE, err |-> FALSE]

HandlerInit ==
    /\ st = EmptyState
    /\ conf \in Confs
    /\ now \in Instants
    /\ \E doc \in StoredDocs :
          call = HandlerCall("idle", doc, <<>>, 1, 0, <<>>, EmptyState,
                             NotLoaded, "none", <<>>, {})

\* Handler up to the loop: LoadConfig, LoadState, GetDueRules. Writing to a
\* nil rule map panics.
HandlerStart ==
    /\ call.pc = "idle"
    /\ \E readErr \in BOOLEAN :
       \E l \in {LoadState(call.stored)} :
       \E r \in {GetDueRules(conf, l.rules, now)} :
          IF LoadConfig(conf, readErr).err
          THEN /\ call' = [call EXCEPT !.pc = "done", !.ret = "load config"]
               /\ st' = st
          ELSE IF l.err
          THEN /\ call' = [call EXCEPT !.pc = "done", !.ret = "load state",
                                       !.loaded = l]
               /\ st' = st
          ELSE IF l.isNil /\ r.st # l.rules
          THEN /\ call' = [call EXCEPT !.pc = "done", !.ret = "panic",
                                       !.loaded = l]
               /\ st' = st
          ELSE /\ call' = [call EXCEPT !.pc = "loop", !.due = r.due,
                                       !.dueIdx = r.dueIdx,
                                       !.afterDue = r.st, !.loaded = l]
               /\ st' = r.st
    /\ UNCHANGED <<conf, now>>

\* One turn of the loop over dueRules.
HandlerDispatch ==
    /\ call.pc = "loop"
    /\ call.k <= Len(call.due)
    /\ \E sendErr \in BOOLEAN :
       \E r \in {DispatchStep(st, call.due[call.k], sendErr, now)} :
          /\ st' = r.st
          /\ call' = [call EXCEPT
                         !.k = NextDue(call.k, Len(call.due), r.out),
                         !.errs = IF r.out # "ok" THEN @ + 1 ELSE @,
                         !.out = Append(@, r.out)]
    /\ UNCHANGED <<conf, now>>

\* After the loop: SaveState and the return.
HandlerSave ==
    /\ call.pc = "loop"
    /\ call.k > Len(call.due)
    /\ \E saveErr \in BOOLEAN :
          call' = [call EXCEPT
                      !.pc = "done",
                      !.stored = SaveState(st, saveErr, call.stored),
                      !.ret = HandlerReturn(saveErr, call.errs)]
    /\ UNCHANGED <<st, conf, now>>

\* The next invocation, at the same instant or a minute later.
HandlerAgain ==
    /\ call.pc = "done"
    /\ call.ret # "panic"
    /\ \E t \in {now, now + 1} \cap Instants :
          now' = t
    /\ st' = EmptyState
    /\ call' = HandlerCall("idle", call.stored, <<>>, 1, 0, <<>>,
                           EmptyState, NotLoaded, "none", <<>>,
                           IF call.ret \in {"load config", "load state"}
                           THEN call.prevFailed
                           ELSE DispatchFailed(call))
    /\ UNCHANGED conf

HandlerNext ==
    \/ HandlerStart
    \/ HandlerDispatch
    \/ HandlerSave
    \/ HandlerAgain

HandlerSpec == HandlerInit /\ [][HandlerNext]_vars

\* LoadState has been called in this pass and nothing was dispatched yet.
AfterLoadState ==
    \/ call.pc = "loop" /\ call.out = <<>>
    \/ call.ret \in {"load state", "panic"}

\* C19. When the stored state does not exist LoadState returns, without
\* error, a State with an empty rule map; every State it returns without
\* error has a non-nil rule map, also for a document without rules field;
\* and the first-ever pass does not fail but bootstraps every configured
\* rule.
C19_MissingStateIsEmpty ==
    AfterLoadState =>
        /\ call.stored.kind = "missing" =>
               (~call.loaded.err /\ call.loaded.rules = EmptyState)
        /\ ~call.loaded.err => ~call.loaded.isNil
        /\ call.stored.kind = "missing" =>
               /\ call.pc = "loop"
               /\ \A i \in 1..Len(conf) : conf[i].Name \in DOMAIN st

\* The outcomes "ok" among the due rules from position k on that have the
\* name of the k-th.
LaterOk(k) ==
    {j \in (k + 1)..Len(call.out) :
        call.due[j].Name = call.due[k].Name /\ call.out[j] = "ok"}

\* C20. At the end of a pass that got as far as the loop: every due rule
\* was dispatched, whatever happened to the rules before it; a rule is
\* advanced exactly when its dispatch and its UpdateRuleState succeeded;
\* the entries of the other names are as GetDueRules left them; the state
\* of the pass is what is stored unless saving failed; and the pass returns
\* an error exactly when a rule failed or loading or saving failed.
C20_PartialPassIsolation ==
    (call.pc = "done" /\ call.ret \notin {"load config", "load state"}) =>
        /\ Len(call.out) = Len(call.due)
        /\ \A k \in 1..Len(call.out) :
              /\ call.out[k] # "send" =>
                     (call.out[k] = "ok"
                          <=> ~GetNextRunTime(call.due[k].Cron, now).err)
              /\ (call.out[k] = "ok" /\ LaterOk(k) = {}) =>
                     st[call.due[k].Name] =
                         AdvancedState(call.due[k].Name, call.due[k].Cron, now,
                             GetNextRunTime(call.due[k].Cron, now).t)
        /\ DOMAIN st = DOMAIN call.afterDue
        /\ \A n \in DOMAIN st :
              (\A k \in 1..Len(call.out) :
                   call.due[k].Name = n => call.out[k] # "ok")
                  => st[n] = call.afterDue[n]
        /\ call.ret # "save state" => call.stored = StoredDoc("map", st)
        /\ call.ret = "nil" <=>
               /\ call.ret # "save state"
               /\ \A k \in 1..Len(call.out) : call.out[k] = "ok"

\* A pass with two due rules of which the first failed and the second was
\* dispatched and advanced; the advance was saved and the pass returned the
\* processing errors.
C20_Witness ==
    /\ call.pc = "done"
    /\ Len(call.due) = 2
    /\ call.out[1] # "ok"
    /\ call.out[2] = "ok"
    /\ st # call.afterDue
    /\ call.ret = "processing errors"
    /\ call.stored = StoredDoc("map", st)

-----------------------------------------------------------------------------
\* config.LoadConfig with validateConfig on whole configuration documents,
\* followed by GetDueRules calls on the rules of an accepted configuration.
\* In this specification conf is the decoded Config (Rules, Destinations,
\* Timezone) and call holds the last call and what it returned.

\* config.Destination
Destination(id, type, snsArn, webhookUrl, toEmails, fromEmail) ==
    [ID |-> id, Type |-> type, SNSARN |-> snsArn, WebhookURL |-> webhookUrl,
     ToEmails |-> toEmails, FromEmail |-> fromEmail]

\* config.Rule with all its fields.
FullRule(name, cronExpr, dests, subject, body) ==
    [Name |-> name, Cron |-> cronExpr, Destinations |-> dests,
     Subject |-> subject, Body |-> body]

\* The first error of a sequence of results ("nil" is no error).
FirstError(errs) ==
    IF \A i \in 1..Len(errs) : errs[i] = "nil"
    THEN "nil"
    ELSE errs[CHOOSE i \in 1..Len(errs) :
                  errs[i] # "nil" /\ \A j \in 1..(i - 1) : errs[j] = "nil"]

\* config.validateDestination
validateDestination(dest) ==
    CASE dest.Type = "sns" ->
             IF dest.SNSARN = "" THEN "sns_arn is required" ELSE "nil"
      [] dest.Type = "slack_webhook" ->
             IF dest.WebhookURL = "" THEN "webhook_url is required" ELSE "nil"
      [] dest.Type = "ses" ->
             IF dest.FromEmail = "" THEN "from_email is required"
             ELSE IF Len(dest.ToEmails) = 0 THEN "to_emails is required"
             ELSE "nil"
      [] dest.Type = "log" -> "nil"
      [] OTHER -> "unsupported destination type"

\* config.validateRule; destMap is the set of the defined destination ids.
validateRule(rule, destMap) ==
    IF rule.Name = "" THEN "rule name cannot be empty"
    ELSE IF rule.Cron = "" THEN "cron expression cannot be empty"
    ELSE IF Len(rule.Destinations) = 0
         THEN "at least one destination must be specified"
    ELSE IF rule.Subject = "" THEN "subject cannot be empty"
    ELSE IF rule.Body = "" THEN "body cannot be empty"
    ELSE IF \E k \in 1..Len(rule.Destinations) :
                rule.Destinations[k] \notin destMap
         THEN "destination not found"
    ELSE "nil"

\* The turn of the loop over conf.Destinations for the i-th destination.
DestinationError(dests, i) ==
    IF dests[i].ID = "" THEN "destination id cannot be empty"
    ELSE IF \E j \in 1..(i - 1) : dests[j].ID = dests[i].ID
         THEN "duplicate destination id"
    ELSE validateDestination(dests[i])

\* time.LoadLocation succeeds for these names.
Locations == {"UTC", "America/Los_Angeles"}

\* config.validateConfig: the error it returns, "nil" for none.
validateConfig(c) ==
    IF Len(c.Rules) = 0 THEN "at least one rule must be defined"
    ELSE IF Len(c.Destinations) = 0
         THEN "at least one destination must be defined"
    ELSE LET destErr == FirstError([i \in 1..Len(c.Destinations) |->
                                       DestinationError(c.Destinations, i)])
             destMap == {c.Destinations[i].ID : i \in 1..Len(c.Destinations)}
             ruleErr == FirstError([i \in 1..Len(c.Rules) |->
                                       validateRule(c.Rules[i], destMap)])
         IN  IF destErr # "nil" THEN destErr
             ELSE IF ruleErr # "nil" THEN ruleErr
             ELSE IF c.Timezone # "" /\ c.Timezone \notin Locations
                  THEN "invalid timezone"
             ELSE "nil"

\* config.LoadConfig on a document that decodes to c, unless reading or
\* decoding fails.
LoadConfigDoc(c, readErr) ==
    IF readErr THEN "open or decode config" ELSE validateConfig(c)

\* The destinations drawn: a log destination, sns with and without its
\* ARN, ses without recipients, and an unsupported type, under three ids.
DestinationsDrawn ==
    {Destination(id, k[1], k[2], "", <<>>, k[3]) :
        id \in {"", "d1", "d2"},
        k \in {<<"log", "", "">>, <<"sns", "arn", "">>, <<"sns", "", "">>,
               <<"ses", "", "from">>, <<"smtp", "", "">>}}

MaxDests == 2

DestinationLists ==
    UNION {[1..n -> DestinationsDrawn] : n \in 0..MaxDests}

\* The rules drawn for a configuration of one rule: every field may be
\* empty, the destination list may name an undefined id.
SingleRules ==
    {FullRule(n, c, d, t[1], t[2]) :
        n \in Names \cup {""}, c \in {"", "*/2 * * * *", "invalid cron"},
        d \in {<<>>, <<"d1">>, <<"d1", "d2">>},
        t \in {<<"s", "b">>, <<"", "b">>, <<"s", "">>}}

\* The rules drawn for a configuration of two rules.
PairRules ==
    {FullRule(n, c, <<"d1">>, "s", "b") : n \in Names, c \in Crons}

ConfigRuleLists ==
    {<<>>} \cup {<<r>> : r \in SingleRules}
           \cup {<<r1, r2>> : r1 \in PairRules, r2 \in PairRules}

ConfigCall(op, err, due, dueIdx) ==
    [op |-> op, err |-> err, due |-> due, dueIdx |-> dueIdx]

ConfigInit ==
    /\ st = EmptyState
    /\ now = 1
    /\ \E rs \in ConfigRuleLists, ds \in DestinationLists,
          tz \in {"", "UTC", "Mars/Olympus"} :
          conf = [Rules |-> rs, Destinations |-> ds, Timezone |-> tz]
    /\ call = ConfigCall("none", "nil", <<>>, <<>>)

\* config.LoadConfig at the start of Handler.
ConfigLoad ==
    /\ call.op = "none"
    /\ \E readErr \in BOOLEAN :
          call' = ConfigCall("LoadConfig", LoadConfigDoc(conf, readErr),
                             <<>>, <<>>)
    /\ UNCHANGED <<st, conf, now>>

\* sched.GetDueRules(conf, st, now) with the accepted configuration.
ConfigGetDueRules ==
    /\ call.op \in {"LoadConfig", "GetDueRules"}
    /\ call.err = "nil"
    /\ \E r \in {GetDueRules(conf.Rules, st, now)} :
          /\ st' = r.st
          /\ call' = ConfigCall("GetDueRules", "nil", r.due, r.dueIdx)
    /\ UNCHANGED <<conf, now>>

\* Time passes between two passes.
ConfigTick ==
    /\ call.op = "GetDueRules"
    /\ now < MaxTime
    /\ now' = now + 1
    /\ UNCHANGED <<st, conf, call>>

ConfigNext == ConfigLoad \/ ConfigGetDueRules \/ ConfigTick

ConfigSpec == ConfigInit /\ [][ConfigNext]_vars

\* LoadConfig returned a configuration.
ConfigAccepted == call.op # "none" /\ call.err = "nil"

\* C21. A configuration is loaded only if every cron expression of its
\* rules passes ValidateRule, so every rule that GetDueRules is called with
\* has an accepted expression.
C21_OnlyParseableCrons ==
    ConfigAccepted =>
        \A i \in 1..Len(conf.Rules) : ~ValidateRule(conf.Rules[i].Cron)

\* C22. A configuration that is loaded has pairwise different rule names,
\* and a rule name occurs at most once in the list GetDueRules returns.
C22_UniqueRuleNames ==
    ConfigAccepted =>
        /\ \A i, j \in 1..Len(conf.Rules) :
              conf.Rules[i].Name = conf.Rules[j].Name => i = j
        /\ \A i, j \in 1..Len(call.due) :
              call.due[i].Name = call.due[j].Name => i = j

-----------------------------------------------------------------------------
\* Passes in which every dispatch, advance and save succeeds, under a
\* configuration that stays as it is, from the empty state: a pass is
\* GetDueRules followed by UpdateRuleState for every due rule in order. In
\* this specification call holds the state before the last pass, what
\* GetDueRules returned and the state it left.
MaxCycleTime == 4

\* The loop over dueRules when every dispatch succeeds.
RECURSIVE AdvanceAll(_, _, _, _)
AdvanceAll(s, due, k, t) ==
    IF k > Len(due) THEN s
    ELSE AdvanceAll(UpdateRuleState(s, due[k].Name, due[k].Cron, t).st,
                    due, k + 1, t)

CycleInit ==
    /\ st = EmptyState
    /\ conf \in Confs
    /\ now = 1
    /\ call = [NoCall EXCEPT !.rules = conf]

\* One pass of Handler.
CyclePass ==
    /\ \E r \in {GetDueRules(conf, st, now)} :
          /\ st' = AdvanceAll(r.st, r.due, 1, now)
          /\ call' = [op |-> "pass", pre |-> st, rules |-> conf, now |-> now,
                      name |-> "", cron |-> "", due |-> r.due,
                      dueIdx |-> r.dueIdx, err |-> r.err,
                      reached |-> r.reached]
    /\ UNCHANGED <<conf, now>>

\* Time passes between two passes.
CycleTick ==
    /\ now < MaxCycleTime
    /\ now' = now + 1
    /\ UNCHANGED <<st, conf, call>>

CycleNext == CyclePass \/ CycleTick

CycleSpec == CycleInit /\ [][CycleNext]_vars

AfterPass == call.op = "pass"

\* Rule i of the last pass had, before the pass, an entry with a next_run
\* at or before the instant of the pass.
WasPending(i) ==
    /\ call.rules[i].Name \in DOMAIN call.pre
    /\ call.pre[call.rules[i].Name].NextRunTime <= call.now

\* C23. With a fixed configuration and passes that succeed, a rule with a
\* valid cron expression whose entry has next_run = N1 is returned as due
\* by the first pass whose now is at or after N1, so that it fires again
\* and again as now grows.
C23_FiresAtNextRun ==
    AfterPass =>
        \A i \in 1..Len(call.rules) :
            (IsValid(call.rules[i].Cron) /\ WasPending(i)) => Returned(i)

\* C24. A pass returns no rule that ran at an instant t under its present
\* cron expression while now is before the next occurrence after t, and it
\* returns a rule name at most once.
C24_NoRepeatedFiring ==
    AfterPass =>
        /\ \A i \in 1..Len(call.rules) :
              LET n == call.rules[i].Name
                  c == call.rules[i].Cron
              IN  (/\ n \in DOMAIN call.pre
                   /\ call.pre[n].LastRunTime # ZeroTime
                   /\ call.pre[n].CronExpr = c
                   /\ call.now < GetNextRunTime(c, call.pre[n].LastRunTime).t)
                      => ~Returned(i)
        /\ \A j, k \in 1..Len(call.due) :
              call.due[j].Name = call.due[k].Name => j = k

\* C25 as stated. A rule that is due with stored next_run = N1 and is
\* dispatched and advanced has last_run = N1 and next_run = the next
\* occurrence after N1 at the end of the pass, whatever now >= N1 is.
C25_AdvanceRecordsOccurrence ==
    AfterPass =>
        \A i \in 1..Len(call.rules) :
            Returned(i) =>
                LET n == call.rules[i].Name
                    c == call.rules[i].Cron
                IN  /\ st[n].LastRunTime = call.pre[n].NextRunTime
                    /\ st[n].NextRunTime =
                           GetNextRunTime(c, call.pre[n].NextRunTime).t

\* C25 as the code has it. A rule that is due and is dispatched and
\* advanced has last_run = now, the instant of the pass, and next_run = the
\* next occurrence after now at the end of the pass.
C25_AdvanceRecordsPassInstant ==
    AfterPass =>
        \A i \in 1..Len(call.rules) :
            Returned(i) =>
                LET n == call.rules[i].Name
                    c == call.rules[i].Cron
                IN  /\ st[n].CronExpr = c
                    /\ st[n].LastRunTime = call.now
                    /\ st[n].NextRunTime = GetNextRunTime(c, call.now).t

\* A rule advanced by a pass later than its stored next_run.
C25_Witness ==
    /\ AfterPass
    /\ \E i \in 1..Len(call.rules) :
          /\ Returned(i)
          /\ call.pre[call.rules[i].Name].NextRunTime < call.now
          /\ call.pre[call.rules[i].Name].NextRunTime # ZeroTime

\* The step is a GetDueRules call that follows the GetDueRules call
\* recorded in call, with nothing but the passing of time in between.
NextGetDueRules ==
    /\ AfterGetDueRules
    /\ call'.op = "GetDueRules"
    /\ call'.pre = st
    /\ call'.now = now
    /\ call'.rules = call.rules

\* C26. If a GetDueRules call detects a cron edit of a rule and the
\* configuration is the same in the next call, the next call returns the
\* rule as due if and only if its now is at or after the next_run that the
\* first call computed from the new expression; whatever the entry was
\* before the edit.
C26_CooldownOnePass ==
    [][NextGetDueRules =>
          \A i \in 1..Len(call.rules) :
              WasChanged(i) =>
                  ((i \in Range(call'.dueIdx))
                       <=> now >= GetNextRunTime(call.rules[i].Cron,
                                                 call.now).t)]_vars

\* C27. A due rule whose dispatch failed is not advanced: at the end of
\* the pass its RuleState is as GetDueRules left it, and that is what is
\* saved; and with the configuration unchanged, the GetDueRules call of the
\* following pass returns the rule as due again.
C27_FailedDispatchRetried ==
    /\ (call.pc = "done" /\ call.ret \notin {"load config", "load state"}) =>
           \A k \in 1..Len(call.out) :
               call.out[k] = "send" =>
                   /\ st[call.due[k].Name] = call.afterDue[call.due[k].Name]
                   /\ call.ret # "save state" =>
                          call.stored.rules[call.due[k].Name]
                              = call.afterDue[call.due[k].Name]
    /\ (call.pc = "loop" /\ call.out = <<>>) =>
           call.prevFailed \subseteq Range(call.dueIdx)

\* ---------------------------------------------------------------------
\* Notifications: the destinations of a rule are resolved and the
\* notification is sent to each of them, as Handler does for a due rule.

\* destMap of GetDestinationsForRule: the ids that are defined.
DefinedIds(allDestinations) ==
    {allDestinations[i].ID : i \in 1..Len(allDestinations)}

\* destMap[id]: of several destinations of one id the last one stays.
DestMap(allDestinations, id) ==
    allDestinations[CHOOSE i \in 1..Len(allDestinations) :
                        /\ allDestinations[i].ID = id
                        /\ \A j \in 1..Len(allDestinations) :
                               allDestinations[j].ID = id => j <= i]

RECURSIVE ResolveLoop(_, _, _, _)
ResolveLoop(ids, allDestinations, k, ruleDestinations) ==
    IF k > Len(ids)
    THEN ruleDestinations
    ELSE ResolveLoop(ids, allDestinations, k + 1,
                     IF ids[k] \in DefinedIds(allDestinations)
                     THEN Append(ruleDestinations,
                                 DestMap(allDestinations, ids[k]))
                     ELSE ruleDestinations)

\* Faulty variant of GetDestinationsForRule: walks allDestinations and
\* keeps the listed ones, so the result has the order of allDestinations.
GetDestinationsForRuleByAll(rule, allDestinations) ==
    SelectSeq(allDestinations,
              LAMBDA d : \E k \in 1..Len(rule.Destinations) :
                             rule.Destinations[k] = d.ID)

\* NotificationSender.GetDestinationsForRule.
GetDestinationsForRule(rule, allDestinations) ==
    ResolveLoop(rule.Destinations, allDestinations, 1, <<>>)

\* The error of one delivery: the channels sns, ses and slack_webhook fail
\* when the service they call does (fails), log only writes a log line,
\* any other type is an error.
SendOne(dest, fails) ==
    CASE dest.Type \in {"sns", "ses", "slack_webhook"} -> fails
      [] dest.Type = "log" -> FALSE
      [] OTHER -> TRUE

\* The loop of SendNotifications from destination k on: attempted holds
\* the positions for which "sending notification" was logged, errors the
\* positions whose error was appended.
RECURSIVE SendLoop(_, _, _, _, _)
SendLoop(destinations, outcomes, k, attempted, errors) ==
    IF k > Len(destinations)
    THEN [attempted |-> attempted, errors |-> errors,
          err |-> Len(errors) > 0]
    ELSE SendLoop(destinations, outcomes, k + 1, Append(attempted, k),
                  IF SendOne(destinations[k], outcomes[k])
                  THEN Append(errors, k)
                  ELSE errors)

\* Faulty variant of SendNotifications: returns at the first error.
RECURSIVE SendLoopStops(_, _, _, _)
SendLoopStops(destinations, outcomes, k, attempted) ==
    IF k > Len(destinations)
    THEN [attempted |-> attempted, errors |-> <<>>, err |-> FALSE]
    ELSE IF SendOne(destinations[k], outcomes[k])
         THEN [attempted |-> Append(attempted, k), errors |-> <<k>>,
               err |-> TRUE]
         ELSE SendLoopStops(destinations, outcomes, k + 1,
                            Append(attempted, k))

SendNotificationsStops(destinations, outcomes) ==
    SendLoopStops(destinations, outcomes, 1, <<>>)

\* NotificationSender.SendNotifications; outcomes[k] says whether the
\* service called for destination k fails.
SendNotifications(destinations, outcomes) ==
    SendLoop(destinations, outcomes, 1, <<>>, <<>>)

DestinationTypes == {"sns", "ses", "slack_webhook", "log", "unsupported_type"}

NotifyDestinations ==
    {Destination(id, type, "", "", <<>>, "") :
        id \in {"d1", "d2"}, type \in DestinationTypes}

MaxAllDests == 2
MaxListed == 3

NotifyCall(op, resolved, outcomes, attempted, errors, err) ==
    [op |-> op, resolved |-> resolved, outcomes |-> outcomes,
     attempted |-> attempted, errors |-> errors, err |-> err]

NotifyInit ==
    /\ st = EmptyState
    /\ now = 1
    /\ \E ids \in UNION {[1..n -> {"d1", "d2", "nonexistent"}] :
                            n \in 0..MaxListed},
          ds \in UNION {[1..n -> NotifyDestinations] : n \in 0..MaxAllDests} :
          conf = [Rule |-> FullRule("a", "*/2 * * * *", ids, "s", "b"),
                  Destinations |-> ds]
    /\ call = NotifyCall("none", <<>>, <<>>, <<>>, <<>>, FALSE)

\* Handler resolves the destinations of a due rule.
NotifyResolve ==
    /\ call.op = "none"
    /\ call' = [call EXCEPT
                   !.op = "resolve",
                   !.resolved = GetDestinationsForRule(conf.Rule,
                                                       conf.Destinations)]
    /\ UNCHANGED <<st, conf, now>>

\* Handler sends the notification to the resolved destinations.
NotifySend ==
    /\ call.op = "resolve"
    /\ \E outcomes \in [1..Len(call.resolved) -> BOOLEAN] :
       \E r \in {SendNotifications(call.resolved, outcomes)} :
          call' = [call EXCEPT !.op = "send", !.outcomes = outcomes,
                               !.attempted = r.attempted,
                               !.errors = r.errors, !.err = r.err]
    /\ UNCHANGED <<st, conf, now>>

NotifyNext == NotifyResolve \/ NotifySend

NotifySpec == NotifyInit /\ [][NotifyNext]_vars

AfterSend == call.op = "send"

\* C28. SendNotifications attempts every destination of the list in
\* order, also after a failed one, and returns an error exactly when at
\* least one destination failed; a destination of an unsupported type
\* fails, a 'log' destination does not.
C28_EveryDestinationAttempted ==
    AfterSend =>
        /\ call.attempted = [k \in 1..Len(call.resolved) |-> k]
        /\ call.err <=> call.errors # <<>>
        /\ \A k \in 1..Len(call.resolved) :
               /\ call.resolved[k].Type \notin
                      {"sns", "ses", "slack_webhook", "log"}
                      => k \in Range(call.errors)
               /\ call.resolved[k].Type = "log" => k \notin Range(call.errors)
               /\ call.resolved[k].Type \in {"sns", "ses", "slack_webhook"}
                      => (k \in Range(call.errors) <=> call.outcomes[k])

\* A list of two destinations was sent to: the first, of an unsupported
\* type, failed, and the second, a log destination, was attempted.
C28_Witness ==
    /\ AfterSend
    /\ Len(call.resolved) = 2
    /\ call.resolved[1].Type = "unsupported_type"
    /\ call.resolved[2].Type = "log"
    /\ call.attempted = <<1, 2>>
    /\ call.err

\* The entries of the rule's destination list that are defined.
ListedDefined ==
    SelectSeq(conf.Rule.Destinations,
              LAMBDA id : id \in DefinedIds(conf.Destinations))

\* C29. GetDestinationsForRule returns, in the order of the rule's list,
\* one destination of allDestinations for each listed identifier that is
\* defined; undefined identifiers are left out, and no destination is
\* returned whose identifier the rule does not list.
C29_DestinationResolution ==
    call.op # "none" =>
        /\ Len(call.resolved) = Len(ListedDefined)
        /\ \A k \in 1..Len(call.resolved) :
               /\ call.resolved[k].ID = ListedDefined[k]
               /\ call.resolved[k] \in Range(conf.Destinations)
               /\ call.resolved[k].ID \in Range(conf.Rule.Destinations)

\* The rule lists d2, an undefined identifier and d1; d1 is defined before
\* d2, and d2 then d1 are returned.
C29_Witness ==
    /\ call.op # "none"
    /\ conf.Rule.Destinations = <<"d2", "nonexistent", "d1">>
    /\ Len(conf.Destinations) = 2
    /\ conf.Destinations[1].ID = "d1"
    /\ conf.Destinations[2].ID = "d2"
    /\ Len(call.resolved) = 2

\* The entry of the i-th rule's name as the loop of GetDueRules leaves it
\* after that rule: what the next rule of the same name finds, or what the
\* call returns.
EntryAfter(r, rules, i) ==
    LET later == {j \in (i + 1)..Len(rules) : rules[j].Name = rules[i].Name}
    IN  IF later = {}
        THEN Lookup(r.st, rules[i].Name)
        ELSE r.reached[CHOOSE j \in later : \A m \in later : j <= m]

\* C30. In passes from the empty state, every RuleState that GetDueRules
\* writes (for any rule of the list, also one that a later rule of the same
\* pass overwrites) or that UpdateRuleState writes has a non-zero next_run
\* strictly later than the instant of the call; every entry of the state
\* has a non-zero next_run and is not due at the instant at which it was
\* last written.
C30_WrittenNextRunInFuture ==
    [][/\ (call.pc = "idle" /\ call'.pc = "run") =>
              LET r == GetDueRules(conf, st, now)
              IN  \A i \in 1..Len(conf) :
                      EntryAfter(r, conf, i) # r.reached[i] =>
                          /\ EntryAfter(r, conf, i)[1].NextRunTime # ZeroTime
                          /\ EntryAfter(r, conf, i)[1].NextRunTime > now
       /\ (call.pc = "run" /\ call'.pc = "run" /\ st' # st) =>
              /\ st'[call.due[call.k].Name].NextRunTime # ZeroTime
              /\ st'[call.due[call.k].Name].NextRunTime > now
       /\ \A n \in DOMAIN st' :
              /\ st'[n].NextRunTime # ZeroTime
              /\ st'[n].NextRunTime > call'.wrote[n]
              /\ ~IsDue(st'[n].CronExpr, st'[n].LastRunTime,
                        st'[n].NextRunTime, call'.wrote[n])]_vars

\* A pass from the empty state has just advanced one rule at the current
\* instant, while the entry of another rule still is as its bootstrap, at
\* an earlier instant, wrote it.
C30_Witness ==
    \E n, m \in DOMAIN st :
        /\ st[n].LastRunTime = now
        /\ call.wrote[n] = now
        /\ st[n].NextRunTime > now
        /\ st[m].LastRunTime = ZeroTime
        /\ call.wrote[m] < now
        /\ st[m].NextRunTime > call.wrote[m]

\* Rule i of the last call had, before the call, an entry with its own
\* cron expression.
SettledBefore(i) ==
    /\ call.rules[i].Name \in DOMAIN call.pre
    /\ call.pre[call.rules[i].Name].CronExpr = call.rules[i].Cron

\* C31. GetDueRules leaves the RuleState of every rule whose entry exists
\* with the rule's configured cron expression as it was before the call
\* (cron snapshot, last_run and next_run), whether the rule is returned as
\* due or not.
C31_SettledUntouched ==
    AfterGetDueRules =>
        \A i \in 1..Len(call.rules) :
            SettledBefore(i) =>
                st[call.rules[i].Name] = call.pre[call.rules[i].Name]

\* Rule i of the last call had, before the call, an entry with another
\* cron expression, and its configured expression cannot be evaluated.
EditedToUnevaluable(i) ==
    /\ call.rules[i].Name \in DOMAIN call.pre
    /\ call.pre[call.rules[i].Name].CronExpr # call.rules[i].Cron
    /\ ~Evaluates(i)

\* C32. When the stored cron snapshot of a rule differs from its configured
\* expression and that expression cannot be evaluated, GetDueRules leaves
\* the stored RuleState as it was (old snapshot, old last_run, old
\* next_run), does not return the rule and returns no error. This is said
\* of every call, so of every following pass too.
C32_UnevaluableEditKeepsState ==
    AfterGetDueRules =>
        \A i \in 1..Len(call.rules) :
            EditedToUnevaluable(i) =>
                /\ st[call.rules[i].Name] = call.pre[call.rules[i].Name]
                /\ ~Returned(i)
                /\ ~call.err

====
